---- MODULE Spec2Model ----
(***************************************************************************)
(* The Repeater control (src/src/controls/repeater/index.tsx).            *)
(*                                                                         *)
(* The host owns the item list (attributes[attr_key]).  The component      *)
(* reads it once per render into `attribute`; the handlers addItem,        *)
(* removeItem, duplicateItem, toggleCollapse and handleDragEnd are         *)
(* useCallback closures over that render's `attribute`, and hand a whole   *)
(* new list back through setAttributes.  A handler invoked before the      *)
(* component has rendered again still holds the previous render's list.    *)
(*                                                                         *)
(* control.fixed, control.addButtonText and control.className only change  *)
(* what is drawn (fixed hides the Add button, which removes behaviours     *)
(* and adds none); they are not modelled.                                  *)
(***************************************************************************)
EXTENDS Integers, Sequences, FiniteSets, TLC

(* ------------------------------ bounds -------------------------------- *)

\* Largest id an item may carry; Add and Duplicate stop at it.
MaxId == 3
\* Longest list the host starts with.
MaxInitLen == 2
\* Most Add clicks handled before the component renders again.
MaxAdds == 2

VARIABLES
    preventEmpty,         \* control.preventEmpty: "undefined", "true" or "false"
    hostList,             \* attributes[attr_key] as held by the host
    attribute,            \* the list read at the last render (closed over by the handlers)
    newItemAdded,         \* the useState value, as last set
    renderedNewItemAdded, \* newItemAdded as seen by the last render (effect dependency)
    dirty,                \* the host was handed a new array since the last render
    mounted,              \* FALSE once a render has thrown
    added,                \* history: the ids addItem gave out since the last render, in order
    retired,              \* history (SpecRetiring only): ids removeItem took out of the host's list
    last                  \* history: the step just taken, with its arguments when
                          \* it is a handler that called setAttributes

vars == << preventEmpty, hostList, attribute, newItemAdded, renderedNewItemAdded,
           dirty, mounted, added, retired, last >>

(* ------------------------------- items -------------------------------- *)

\* An Item { id, label, value, collapsed }.
Item(id, label, value, collapsed) ==
    [id |-> id, label |-> label, value |-> value, collapsed |-> collapsed]

\* JavaScript's undefined as a list element.  It has no fields; the fields
\* here only keep the element comparable with items, and no handler reads them.
Undefined == [id |-> 0, label |-> "undefined", value |-> 0, collapsed |-> FALSE]

\* Values Date.now() may return when an item is added.
NowValues == {1}

\* An item of the list the host holds when the component is mounted: one that
\* addItem created in an earlier session, in either collapse state.
HostItem(id, collapsed) == Item(id, "New Item", 1, collapsed)

Max(a, b) == IF a >= b THEN a ELSE b
Min(a, b) == IF a <= b THEN a ELSE b

Ids(list) == {list[i].id : i \in 1..Len(list)}

Distinct(list) == \A i, j \in 1..Len(list) : list[i].id = list[j].id => i = j

RemoveAt(list, i) == SubSeq(list, 1, i - 1) \o SubSeq(list, i + 1, Len(list))

InsertAt(list, i, e) == SubSeq(list, 1, i - 1) \o << e >> \o SubSeq(list, i, Len(list))

\* getMaxId (./utils): the largest id of the list, 0 for the empty list.
getMaxId(items) ==
    IF Len(items) = 0 THEN 0
    ELSE CHOOSE m \in Ids(items) : \A k \in Ids(items) : k <= m

\* Array.prototype.findIndex with the predicate item.id === id: the 0-based
\* index of the first match, -1 when there is none.
findIndex(list, id) ==
    IF \E i \in 1..Len(list) : list[i].id = id
    THEN (CHOOSE i \in 1..Len(list) :
              /\ list[i].id = id
              /\ \A j \in 1..(i - 1) : list[j].id # id) - 1
    ELSE -1

\* Array.prototype.find with the same predicate; Undefined when there is none.
find(list, id) ==
    IF findIndex(list, id) >= 0 THEN list[findIndex(list, id) + 1] ELSE Undefined

\* Array.prototype.filter with the predicate item.id !== id.
RECURSIVE filter(_, _)
filter(list, id) ==
    IF Len(list) = 0 THEN << >>
    ELSE IF Head(list).id # id
         THEN << Head(list) >> \o filter(Tail(list), id)
         ELSE filter(Tail(list), id)

\* arrayMove of @dnd-kit/sortable, with 0-based indices as the caller passes them:
\*   const newArray = array.slice();
\*   newArray.splice(to < 0 ? newArray.length + to : to, 0,
\*                   newArray.splice(from, 1)[0]);
\* The insertion index is computed before the removal; splice takes a negative
\* start from the end and clamps it to the array; removing from an empty
\* array yields undefined, which is then inserted.
arrayMove(array, from, to) ==
    LET n      == Len(array)
        pos    == IF to < 0 THEN n + to ELSE to
        start  == IF from < 0 THEN Max(n + from, 0) ELSE Min(from, n)
        moved  == IF start < n THEN array[start + 1] ELSE Undefined
        rest   == IF start < n THEN RemoveAt(array, start + 1) ELSE array
        m      == Len(rest)
        ins    == IF pos < 0 THEN Max(m + pos, 0) ELSE Min(pos, m)
    IN  InsertAt(rest, ins + 1, moved)

(* ------------------- what each handler hands to the host -------------- *)

\* addItem giving the new item the largest id in use instead of the next one.
addItemSameId(list, now) ==
    Append(list, Item(getMaxId(list), "New Item", now, TRUE))

\* addItem putting the new item first and leaving it expanded.
addItemPrepended(list, now) ==
    << Item(getMaxId(list) + 1, "New Item", now, FALSE) >> \o list

\* addItem: [ ...attribute, { id: getMaxId + 1, 'New Item', Date.now(), collapsed: true } ]
addItemAttributes(list, now) ==
    Append(list, Item(getMaxId(list) + 1, "New Item", now, TRUE))

\* isDisabledRemove taking an undefined preventEmpty for a disabled policy.
isDisabledRemoveOnlyTrue(control, list) ==
    control = "true" /\ Len(list) = 1

\* isDisabledRemove: preventEmpty undefined or truthy, and exactly one item.
isDisabledRemove(control, list) ==
    (control = "undefined" \/ control = "true") /\ Len(list) = 1

\* removeItem with the filter's test inverted: only the named item is kept.
removeItemInverted(list, id) ==
    SelectSeq(list, LAMBDA e : e.id = id)

\* removeItem: attribute.filter( item => item.id !== id )
removeItemAttributes(list, id) == filter(list, id)

\* duplicateItem building the copy as addItem builds a new item (collapsed).
duplicateItemCollapsed(list, id) ==
    Append(list, Item(getMaxId(list) + 1, find(list, id).label, find(list, id).value, TRUE))

\* duplicateItem: [ ...attribute, { ...itemToDuplicate, id: getMaxId + 1 } ]
duplicateItemAttributes(list, id) ==
    Append(list, [find(list, id) EXCEPT !.id = getMaxId(list) + 1])

\* toggleCollapse: the matching item with collapsed negated, the others as they are.
toggleCollapseAttributes(list, id) ==
    [i \in 1..Len(list) |->
        IF list[i].id = id
        THEN [list[i] EXCEPT !.collapsed = ~list[i].collapsed]
        ELSE list[i]]

\* handleDragEnd with arrayMove's two indices exchanged.
handleDragEndExchanged(list, active, over) ==
    arrayMove(list, findIndex(list, over), findIndex(list, active))

\* handleDragEnd past its early return: arrayMove between the two findIndex results.
handleDragEndAttributes(list, active, over) ==
    arrayMove(list, findIndex(list, active), findIndex(list, over))

(* ------------------------------- state -------------------------------- *)

IdInputs == 1..MaxId

\* over is null (0 here) when the drag ended over no droppable.
OverInputs == 0..MaxId

RECURSIVE HostLists(_)
HostLists(n) ==
    IF n = 0 THEN {<< >>}
    ELSE HostLists(n - 1) \cup
         {Append(l, HostItem(id, c)) :
             l \in {x \in HostLists(n - 1) : Len(x) = n - 1},
             id \in IdInputs, c \in BOOLEAN}

InitLists == {l \in HostLists(MaxInitLen) : Distinct(l)}

Init ==
    /\ preventEmpty \in {"undefined", "true", "false"}
    /\ hostList \in InitLists
    /\ attribute = hostList
    /\ newItemAdded = FALSE
    /\ renderedNewItemAdded = FALSE
    /\ dirty = FALSE
    /\ mounted = TRUE
    /\ added = << >>
    /\ retired = {}
    /\ last = [op |-> "mount", a |-> 0, b |-> 0]

\* setAttributes( { [ attr_key ]: newAttributes } ): the host takes the list.
setAttributes(newAttributes) ==
    /\ hostList' = newAttributes
    /\ dirty' = TRUE

\* A handler that returns without calling setAttributes.
NoEmit == UNCHANGED << hostList, dirty >>

\* The record kept in `last`.
Step(op, a, b) == [op |-> op, a |-> a, b |-> b]

(* ------------------------------ handlers ------------------------------ *)

addItemAt(now) ==
    /\ mounted
    /\ getMaxId(attribute) + 1 <= MaxId
    /\ Len(added) < MaxAdds
    /\ setAttributes(addItemAttributes(attribute, now))
    /\ newItemAdded' = TRUE
    /\ added' = Append(added, getMaxId(attribute) + 1)
    /\ last' = Step("add", 0, 0)
    /\ UNCHANGED << preventEmpty, attribute, renderedNewItemAdded, mounted, retired >>

addItem == \E now \in NowValues : addItemAt(now)

removeItemOf(id) ==
    /\ mounted
    /\ IF isDisabledRemove(preventEmpty, attribute)
       THEN /\ NoEmit
            /\ last' = Step("remove", 0, 0)
       ELSE /\ setAttributes(removeItemAttributes(attribute, id))
            /\ last' = Step("remove", id, 0)
    /\ UNCHANGED << preventEmpty, attribute, newItemAdded, renderedNewItemAdded,
                    mounted, added >>

removeItem == \E id \in IdInputs : removeItemOf(id) /\ UNCHANGED retired

\* removeItem, with the history of the ids it took out of the list: the id
\* named, when the list read and the host's list both held it and the list
\* handed back does not.
removeItemRetiring ==
    \E id \in IdInputs :
        /\ removeItemOf(id)
        /\ retired' = retired \cup
               ({id} \cap Ids(attribute) \cap (Ids(hostList) \ Ids(hostList')))

duplicateItemOf(id) ==
    /\ mounted
    /\ IF find(attribute, id) # Undefined
       THEN /\ getMaxId(attribute) + 1 <= MaxId
            /\ setAttributes(duplicateItemAttributes(attribute, id))
            /\ last' = Step("duplicate", id, 0)
       ELSE /\ NoEmit
            /\ last' = Step("duplicate", 0, 0)
    /\ UNCHANGED << preventEmpty, attribute, newItemAdded, renderedNewItemAdded,
                    mounted, added, retired >>

duplicateItem == \E id \in IdInputs : duplicateItemOf(id)

toggleCollapseOf(id) ==
    /\ mounted
    /\ setAttributes(toggleCollapseAttributes(attribute, id))
    /\ last' = Step("toggle", id, 0)
    /\ UNCHANGED << preventEmpty, attribute, newItemAdded, renderedNewItemAdded,
                    mounted, added, retired >>

toggleCollapse == \E id \in IdInputs : toggleCollapseOf(id)

handleDragEndOf(active, over) ==
    /\ mounted
    /\ IF over = 0 \/ active = over
       THEN /\ NoEmit
            /\ last' = Step("drag", 0, 0)
       ELSE /\ setAttributes(handleDragEndAttributes(attribute, active, over))
            /\ last' = Step("drag", active, over)
    /\ UNCHANGED << preventEmpty, attribute, newItemAdded, renderedNewItemAdded,
                    mounted, added, retired >>

handleDragEnd == \E active \in IdInputs, over \in OverInputs : handleDragEndOf(active, over)

\* The component renders again with the host's attributes and the state as
\* last set, and then its effect runs (a dependency changed: either the host
\* handed over a new array or newItemAdded changed).  attribute.map( item =>
\* ... key={ item.id } ) throws on an undefined element, and the component is
\* unmounted.
Render ==
    /\ mounted
    /\ dirty \/ newItemAdded # renderedNewItemAdded
    /\ IF \E i \in 1..Len(hostList) : hostList[i] = Undefined
       THEN /\ mounted' = FALSE
            /\ last' = Step("crash", 0, 0)
            /\ UNCHANGED << attribute, newItemAdded, renderedNewItemAdded, dirty, added >>
       ELSE /\ attribute' = hostList
            /\ dirty' = FALSE
            /\ renderedNewItemAdded' = newItemAdded
            \* useEffect: if ( newItemAdded && itemListRef.current ) { scrollTo; setNewItemAdded( false ) }
            /\ newItemAdded' = FALSE
            /\ added' = << >>
            /\ last' = Step(IF newItemAdded THEN "scroll" ELSE "render", 0, 0)
            /\ UNCHANGED mounted
    /\ UNCHANGED << preventEmpty, hostList, retired >>

Next ==
    \/ addItem
    \/ removeItem
    \/ duplicateItem
    \/ toggleCollapse
    \/ handleDragEnd
    \/ Render

Spec == Init /\ [][Next]_vars

\* The same program, recording which ids removeItem has retired.
NextRetiring ==
    \/ addItem
    \/ removeItemRetiring
    \/ duplicateItem
    \/ toggleCollapse
    \/ handleDragEnd
    \/ Render

SpecRetiring == Init /\ [][NextRetiring]_vars


(* ------------------------------- claims ------------------------------- *)

\* The prevent-empty policy is active: control.preventEmpty is undefined or true.
PolicyActive == preventEmpty \in {"undefined", "true"}

\* The list without the item that carries id, the other items in their order.
Without(list, id) == SelectSeq(list, LAMBDA e : e.id # id)

\* The 1-based position of the item that carries id (ids distinct, id present).
PositionOf(list, id) == CHOOSE i \in 1..Len(list) : list[i].id = id

\* k is one more than the largest id of list, or 1 when list is empty.
IsNextId(list, k) ==
    IF Len(list) = 0 THEN k = 1
    ELSE /\ (k - 1) \in Ids(list)
         /\ \A j \in Ids(list) : j < k

\* C1: starting from a list with pairwise distinct ids, after any sequence of
\* Add, Remove, Duplicate, DragEnd and Toggle-Collapse the ids of the list the
\* host holds are pairwise distinct.
C1_DistinctIds == Distinct(hostList)

\* C1's case: a second Add handled before the component rendered the first.
C1_Witness ==
    /\ last.op = "add"
    /\ Len(added) = 2
    /\ Len(hostList) >= 2

\* C2: with the prevent-empty policy active, a list that is non-empty (as the
\* host holds it and as the component last rendered it, which is how it
\* starts) never becomes empty, and a Remove handled while the list the
\* component holds has exactly one item leaves the host's list as it is.
C2_PreventEmpty ==
    [][ /\ (PolicyActive /\ Len(attribute) >= 1 /\ Len(hostList) >= 1)
               => (Len(attribute') >= 1 /\ Len(hostList') >= 1)
        /\ (PolicyActive /\ Len(attribute) = 1 /\ last'.op = "remove")
               => hostList' = hostList ]_vars

\* C2's case: Remove was invoked on a one-item list under the policy.
C2_Witness ==
    /\ PolicyActive
    /\ last.op = "remove"
    /\ Len(attribute) = 1
    /\ hostList = attribute
    /\ ~dirty

\* The handlers' names, as `last` records them.
Handlers == {"add", "remove", "duplicate", "toggle", "drag"}

\* This step is an Add, or a Duplicate of an item of the list: an item with a
\* newly assigned id is appended.
AssignsNewId ==
    \/ addItem
    \/ \E id \in Ids(attribute) : duplicateItemOf(id)

\* C3: ids are never reused: once Remove has taken an id out of the list, no
\* later Add or Duplicate assigns that id to a new item.
C3_NeverReused ==
    [][ AssignsNewId => hostList'[Len(hostList')].id \notin retired ]_vars

\* C4: for X and Y distinct and both in the list, DragEnd(X, Y) emits the same
\* items (none added, dropped or altered), X at the index Y had, and the other
\* items in their original relative order.
C4_DragEndMoves ==
    ( /\ last.op = "drag"
      /\ last.a # last.b
      /\ last.a \in Ids(attribute)
      /\ last.b \in Ids(attribute) ) =>
        /\ Len(hostList) = Len(attribute)
        /\ hostList[PositionOf(attribute, last.b)] = attribute[PositionOf(attribute, last.a)]
        /\ Without(hostList, last.a) = Without(attribute, last.a)

\* C4's case: in a list of three, the first item was dragged onto the second.
C4_Witness ==
    /\ last.op = "drag"
    /\ Len(attribute) = 3
    /\ last.a = attribute[1].id
    /\ last.b = attribute[2].id
    /\ Distinct(attribute)
    /\ hostList = << attribute[2], attribute[1], attribute[3] >>

\* C5: a DragEnd whose active id or over id (non-null, distinct) is not in the
\* list is a no-op: the list handed to the host has the same items in the same
\* order.  Stated for a list that has an item to drag.
C5_DragEndUnknownIdNoOp ==
    ( /\ last.op = "drag"
      /\ last.a # 0
      /\ Len(attribute) >= 1
      /\ (last.a \notin Ids(attribute) \/ last.b \notin Ids(attribute)) )
    => hostList = attribute

\* C6: every Add is answered by exactly one scroll, which fires only once the
\* list with the added item has been rendered; no scroll fires without an Add,
\* and newItemAdded is false again after the scroll.
C6_ScrollOncePerAdd ==
    [][ last'.op = "scroll" =>
            /\ Len(added) = 1
            /\ \A i \in 1..Len(added) : added[i] \in Ids(attribute')
            /\ attribute' = hostList'
            /\ newItemAdded' = FALSE ]_vars

\* C7: Add emits the list it read with exactly one item appended: the prior
\* items unchanged and in order, the new one collapsed and with id
\* max(existing ids) + 1 (1 for the empty list), greater than every id of the list.
C7_AddAppends ==
    [][ last'.op = "add" =>
            /\ Len(hostList') = Len(attribute) + 1
            /\ SubSeq(hostList', 1, Len(attribute)) = attribute
            /\ IsNextId(attribute, hostList'[Len(hostList')].id)
            /\ \A k \in Ids(attribute) : hostList'[Len(hostList')].id > k
            /\ hostList'[Len(hostList')].collapsed = TRUE ]_vars

\* C7's case: Add on a list whose only item has id 2.
C7_Witness ==
    /\ last.op = "add"
    /\ Len(attribute) = 1
    /\ attribute[1].id = 2
    /\ Len(hostList) = 2
    /\ hostList[2].id = 3

C9_RemoveFilters ==
    [][ \A id \in IdInputs :
            (last'.op = "remove" /\ removeItemOf(id)) =>
                /\ (id \in Ids(attribute) /\ (Len(attribute) > 1 \/ preventEmpty = "false"))
                       => /\ Len(hostList') = Len(attribute) - 1
                          /\ id \notin Ids(hostList')
                          /\ hostList' = Without(attribute, id)
                /\ id \notin Ids(attribute)
                       => IF PolicyActive /\ Len(attribute) = 1
                          THEN hostList' = hostList
                          ELSE hostList' = attribute ]_vars

\* C9's case: the middle item of a list of three was removed.
C9_Witness ==
    /\ last.op = "remove"
    /\ Len(attribute) = 3
    /\ hostList = << attribute[1], attribute[3] >>

\* C10: every operation computes its new list from the list most recently
\* handed to the host, so that of two operations handled one after the other
\* (also before the component renders again) neither is lost.
C10_ReadsCurrentList ==
    [][ last'.op \in Handlers => attribute = hostList ]_vars

====
